---- MODULE Spec2Model ----
(***************************************************************************)
(* Vocal Extractor service (my_project/main.py): the in-memory account     *)
(* store with its register / login / google-login handlers, the /process   *)
(* job pipeline with its temporary files, and the /download endpoint.       *)
(*                                                                         *)
(* Strings that the code builds or inspects (usernames, paths, URLs) are   *)
(* sequences of text pieces, so that concatenation, prefix tests, slicing   *)
(* and equality are computed as Python computes them.                       *)
(***************************************************************************)
EXTENDS Integers, Sequences, FiniteSets, TLC

VARIABLES
    users,          \* main.py:40  the account store, username -> account dict
    last,           \* the response of the latest auth request
    rthreads,       \* concurrent /register requests, one per worker thread
    demucs_model,   \* main.py:69-76  "loaded" or "None"
    jobs,           \* the /process requests in order of arrival
    files,          \* regular files on disk, normalised path -> content
    dirs,           \* directories on disk (normalised paths)
    submitted,      \* number of calls handed to the worker pool
    dl              \* the response of the latest /download request

vars == <<users, last, rthreads, demucs_model, jobs, files, dirs, submitted, dl>>

authVars == <<users, last>>
raceVars == <<rthreads>>
jobVars  == <<demucs_model, jobs, files, dirs, submitted, dl>>

(***************************************************************************)
(* Bounds of the model.                                                    *)
(***************************************************************************)
HashMod     == 7    \* size of the digest space of the modelled hash
MaxJobs     == 1    \* /process requests in one behaviour
NumThreads  == 2    \* worker threads serving /register at the same time

None == "None"

(***************************************************************************)
(* Python helpers.                                                         *)
(***************************************************************************)
Min(a, b) == IF a < b THEN a ELSE b

\* str.startswith
startswith(s, prefix) ==
    /\ Len(s) >= Len(prefix)
    /\ SubSeq(s, 1, Len(prefix)) = prefix

\* str.endswith
endswith(s, suffix) ==
    /\ Len(s) >= Len(suffix)
    /\ SubSeq(s, Len(s) - Len(suffix) + 1, Len(s)) = suffix

\* d[k] = v on a dict
Put(d, k, v) == [x \in (DOMAIN d) \cup {k} |-> IF x = k THEN v ELSE d[x]]

EmptyDict == [x \in {} |-> None]

(***************************************************************************)
(* Account store: inputs.                                                  *)
(***************************************************************************)
Usernames ==
    { <<"a", "l", "_", "1", "2", "3", "4", "5", "6">>,
      <<"b", "o">> }

Emails == {"al@x.org", "bo@x.org"}

\* passwords as byte sequences
Passwords == { <<1>>, <<2>>, <<8>> }

\* display names returned by the token endpoint
Names == { <<"A", "l">>, <<"B", " ", "o">> }

\* external identifiers returned by the token endpoint
Subs ==
    { <<"1", "2", "3", "4", "5", "6", "7">>,
      <<"1", "2", "3", "4", "5", "6", "8">>,
      <<"9", "9">> }

RegisterRequests ==
    [username : Usernames, email : Emails, password : Passwords]

\* what requests.get(...).json() can yield for a token: an error document,
\* a verified identity, or no document at all (the call raises)
TokenData ==
    { [error |-> "invalid_token"] }
        \cup [email : {"al@x.org"}, name : Names, sub : Subs]

TokenOutcomes == TokenData \cup { [exception |-> "ConnectionError"] }

\* hashlib.sha256(password.encode()).hexdigest(): a deterministic digest of
\* the bytes into a finite digest space
RECURSIVE Digest(_, _)
Digest(bytes, h) ==
    IF bytes = <<>> THEN h
    ELSE Digest(Tail(bytes), (h * 31 + Head(bytes)) % HashMod)

hash_password(password) == Digest(password, 0)

\* str.lower() on one character
LowerChar(c) ==
    CASE c = "A" -> "a"
      [] c = "B" -> "b"
      [] OTHER -> c

\* name.replace(" ", "_").lower()
NormalizeName(name) ==
    [i \in 1..Len(name) |-> LowerChar(IF name[i] = " " THEN "_" ELSE name[i])]

\* name.replace(" ", "_").lower() + "_" + sub[:6]
GoogleUsername(name, sub) ==
    NormalizeName(name) \o <<"_">> \o SubSeq(sub, 1, Min(6, Len(sub)))

GoogleUsernames == { GoogleUsername(n, s) : n \in Names, s \in Subs }

LoginRequests ==
    [username : Usernames \cup GoogleUsernames, password : Passwords]

(***************************************************************************)
(* Account store: handlers as functions of the store and the request.      *)
(* Each yields the new store and the HTTP response.                        *)
(***************************************************************************)
Response(us, status, detail, username) ==
    [users |-> us, status |-> status, detail |-> detail, username |-> username]

\* a mutation of register: the membership test is dropped
register_overwrite(us, req) ==
    Response(Put(us, req.username,
                 [username |-> req.username,
                  email |-> req.email,
                  password_hash |-> hash_password(req.password)]),
             200, "Registration successful", None)

\* main.py:84-93
register(us, req) ==
    IF req.username \in DOMAIN us
    THEN Response(us, 400, "Username already exists", None)
    ELSE Response(Put(us, req.username,
                      [username |-> req.username,
                       email |-> req.email,
                       password_hash |-> hash_password(req.password)]),
                  200, "Registration successful", None)

\* main.py:95-100.  users.get gives None for an unknown name; indexing an
\* account dict that has no "password_hash" key raises KeyError, which no
\* handler catches: the framework answers 500.
login(us, req) ==
    IF req.username \notin DOMAIN us
    THEN Response(us, 401, "Invalid credentials", None)
    ELSE IF "password_hash" \notin DOMAIN us[req.username]
    THEN Response(us, 500, "Internal Server Error", None)
    ELSE IF us[req.username].password_hash # hash_password(req.password)
    THEN Response(us, 401, "Invalid credentials", None)
    ELSE Response(us, 200, "Login successful", None)

\* main.py:112-130, the body of the try block: the response it returns, or
\* the exception it raises (raised = TRUE)
google_login_try(us, outcome) ==
    IF "exception" \in DOMAIN outcome
    THEN [raised |-> TRUE, exc |-> "RequestException", status |-> 0,
          users |-> us, username |-> None]
    ELSE IF "error" \in DOMAIN outcome
    THEN [raised |-> TRUE, exc |-> "HTTPException", status |-> 401,
          users |-> us, username |-> None]
    ELSE LET username == GoogleUsername(outcome.name, outcome.sub)
         IN  [raised |-> FALSE, exc |-> None, status |-> 200,
              users |-> IF username \notin DOMAIN us
                        THEN Put(us, username,
                                 [username |-> username,
                                  email |-> outcome.email,
                                  google_id |-> outcome.sub])
                        ELSE us,
              username |-> username]

\* main.py:109-132.  "except Exception" catches everything the try block
\* raises, the HTTPException(401) of line 117 included, and raises
\* HTTPException(500) in its place.
google_login(us, outcome) ==
    LET r == google_login_try(us, outcome)
    IN  IF r.raised
        THEN Response(r.users, 500, "Google login failed", None)
        ELSE Response(r.users, 200, "Google login successful", r.username)

(***************************************************************************)
(* Account store: one action per request, handled start to end.            *)
(***************************************************************************)
Answer(op, req, r) ==
    /\ users' = r.users
    /\ last' = [op |-> op, req |-> req, status |-> r.status,
                detail |-> r.detail, username |-> r.username]

Register ==
    \E req \in RegisterRequests :
        /\ Answer("register", req, register(users, req))
        /\ UNCHANGED <<raceVars, jobVars>>

Login ==
    \E req \in LoginRequests :
        /\ Answer("login", req, login(users, req))
        /\ UNCHANGED <<raceVars, jobVars>>

GoogleLogin ==
    \E outcome \in TokenOutcomes :
        /\ Answer("google-login", outcome, google_login(users, outcome))
        /\ UNCHANGED <<raceVars, jobVars>>

NoResponse ==
    [op |-> None, req |-> None, status |-> 0, detail |-> None, username |-> None]

AuthNext == Register \/ Login \/ GoogleLogin

(***************************************************************************)
(* Concurrent /register requests.  The handler is a plain "def", so the    *)
(* framework runs each request on its own worker thread; nothing guards    *)
(* the store, and a thread can be preempted between the membership test    *)
(* of line 86 and the store write of line 88.                              *)
(***************************************************************************)
Threads == 1..NumThreads

IdleThread == [pc |-> "idle", req |-> None, status |-> 0, detail |-> None]

\* main.py:86-87
RegisterCheck(t) ==
    /\ rthreads[t].pc = "idle"
    /\ \E req \in RegisterRequests :
        rthreads' = [rthreads EXCEPT ![t] =
            IF req.username \in DOMAIN users
            THEN [pc |-> "done", req |-> req, status |-> 400,
                  detail |-> "Username already exists"]
            ELSE [pc |-> "write", req |-> req, status |-> 0, detail |-> None]]
    /\ UNCHANGED <<authVars, jobVars>>

\* main.py:88-93
RegisterWrite(t) ==
    /\ rthreads[t].pc = "write"
    /\ users' = Put(users, rthreads[t].req.username,
                    [username |-> rthreads[t].req.username,
                     email |-> rthreads[t].req.email,
                     password_hash |-> hash_password(rthreads[t].req.password)])
    /\ rthreads' = [rthreads EXCEPT ![t] =
            [@ EXCEPT !.pc = "done", !.status = 200,
                      !.detail = "Registration successful"]]
    /\ UNCHANGED <<last, jobVars>>

RaceNext == \E t \in Threads : RegisterCheck(t) \/ RegisterWrite(t)

(***************************************************************************)
(* The file system under the working directory.  A path is a sequence of   *)
(* text pieces in which "/" is the separator and ".." the parent entry.    *)
(* files maps the normalised path of each regular file to what it holds;   *)
(* dirs is the set of normalised paths of the directories.                 *)
(***************************************************************************)
ENOENT == <<>>

\* the components of a path, split at "/"
RECURSIVE Components(_, _, _)
Components(path, cur, acc) ==
    IF path = <<>> THEN Append(acc, cur)
    ELSE IF Head(path) = "/" THEN Components(Tail(path), <<>>, Append(acc, cur))
    ELSE Components(Tail(path), Append(cur, Head(path)), acc)

\* the path with the components joined by "/"
RECURSIVE Join(_)
Join(comps) ==
    IF comps = <<>> THEN <<>>
    ELSE IF Len(comps) = 1 THEN comps[1]
    ELSE comps[1] \o <<"/">> \o Join(Tail(comps))

\* The kernel's walk of a relative path: an empty component is skipped,
\* ".." steps to the parent, and every component but the last must name an
\* existing directory.  Yields the normalised path, or ENOENT.
RECURSIVE Walk(_, _, _, _)
Walk(comps, i, stack, ds) ==
    IF i > Len(comps) THEN Join(stack)
    ELSE IF comps[i] = <<>> THEN Walk(comps, i + 1, stack, ds)
    ELSE IF comps[i] = <<"..">>
    THEN IF stack # <<>> /\ stack[Len(stack)] # <<"..">>
         THEN Walk(comps, i + 1, SubSeq(stack, 1, Len(stack) - 1), ds)
         ELSE Walk(comps, i + 1, Append(stack, <<"..">>), ds)
    ELSE IF i < Len(comps) /\ Join(Append(stack, comps[i])) \notin ds
    THEN ENOENT
    ELSE Walk(comps, i + 1, Append(stack, comps[i]), ds)

Resolve(path, ds) == Walk(Components(path, <<>>, <<>>), 1, <<>>, ds)

\* os.path.isfile
isfile(path, fs, ds) == Resolve(path, ds) \in DOMAIN fs

\* os.makedirs(path, exist_ok=True) for a one- or two-level path
RECURSIVE Prefixes(_)
Prefixes(comps) ==
    IF comps = <<>> THEN {}
    ELSE {Join(comps)} \cup Prefixes(SubSeq(comps, 1, Len(comps) - 1))

makedirs(path, ds) == ds \cup Prefixes(Components(path, <<>>, <<>>))

\* open(path, "wb") succeeds when the parent directories exist and the path
\* is not a directory; the file is created or truncated
CanOpenForWrite(path, ds) ==
    /\ Resolve(path, ds) # ENOENT
    /\ Resolve(path, ds) \notin ds

WriteFile(path, content, fs, ds) == Put(fs, Resolve(path, ds), content)

\* os.remove
RemoveFile(path, fs, ds) ==
    [p \in (DOMAIN fs) \ {Resolve(path, ds)} |-> fs[p]]

(***************************************************************************)
(* /process: inputs and paths.                                             *)
(***************************************************************************)
\* names the client can give the uploaded file
Filenames ==
    { <<"a", ".mp4">>,
      <<"temp", ".wav">>,
      <<"d", "/", "a", ".mp4">> }

\* the format selector of the form
Formats == {"wav", "mp4"}

\* str(uuid.uuid4()): the n-th identifier drawn; no two draws agree and none
\* contains a separator
uuid4(n) == "uuid-" \o ToString(n)

\* main.py:198  f"temp/{video_id}_{file.filename}"
video_path(video_id, filename) == <<"temp", "/", video_id, "_">> \o filename

\* main.py:143 and 219  f"temp/{video_id}_temp.wav"
temp_audio_path(video_id) == <<"temp", "/", video_id, "_", "temp", ".wav">>

\* main.py:164  f"separated_output/{video_id}"
output_dir(video_id) == <<"separated_output", "/", video_id>>

\* os.path.join(output_dir, stem + ext)
stem_path(video_id, stem, ext) == output_dir(video_id) \o <<"/", stem, ext>>

\* a mutation of the result: the wav locators whatever the format
result_always_wav(video_id, format) ==
    [vocals_url |-> <<"/download?file=">> \o stem_path(video_id, "vocals", ".wav"),
     music_url  |-> <<"/download?file=">> \o stem_path(video_id, "music", ".wav")]

\* main.py:172-188  the dict process_video_sync returns
result(video_id, format) ==
    IF format = "mp4"
    THEN [vocals_url |-> <<"/download?file=">> \o stem_path(video_id, "vocals", ".mp4"),
          music_url  |-> <<"/download?file=">> \o stem_path(video_id, "music", ".mp4")]
    ELSE [vocals_url |-> <<"/download?file=">> \o stem_path(video_id, "vocals", ".wav"),
          music_url  |-> <<"/download?file=">> \o stem_path(video_id, "music", ".wav")]

NoResult == [vocals_url |-> <<>>, music_url |-> <<>>]

\* a mutation of the availability test: the request is let through
model_check_skipped(model) == TRUE

\* main.py:192  "if demucs_model is None" (negated)
model_available(model) == model # None

\* main.py:215-221  the finally block: both removals sit in one try, so a
\* removal that raises ends the clean-up; os.remove raises when the file is
\* not there, or when the system refuses (rm1, rm2 = "error")
cleanup(video_id, filename, fs, ds, rm1, rm2) ==
    IF rm1 = "error" \/ ~isfile(video_path(video_id, filename), fs, ds)
    THEN fs
    ELSE LET fs1 == RemoveFile(video_path(video_id, filename), fs, ds)
         IN  IF rm2 = "error" \/ ~isfile(temp_audio_path(video_id), fs1, ds)
             THEN fs1
             ELSE RemoveFile(temp_audio_path(video_id), fs1, ds)

RemoveOutcomes == {"ok", "error"}

\* main.py:209-214  the response for what the worker call returned or raised
reply(job) ==
    IF job.exc = None
    THEN [job EXCEPT !.pc = "done", !.status = 200, !.detail = "OK",
                     !.body = job.result]
    ELSE IF job.exc = "CalledProcessError"
    THEN [job EXCEPT !.pc = "done", !.status = 500, !.detail = "FFmpeg failed"]
    ELSE [job EXCEPT !.pc = "done", !.status = 500,
                     !.detail = "An error occurred during audio processing"]

NewJob(video_id, filename, format) ==
    [video_id |-> video_id, filename |-> filename, format |-> format,
     pc |-> "start", exc |-> None, result |-> NoResult,
     status |-> 0, detail |-> None, body |-> NoResult, steps |-> {}]

\* identifiers drawn so far
Drawn == Cardinality({i \in 1..Len(jobs) : jobs[i].video_id # None})

(***************************************************************************)
(* /process: the handler up to its await (main.py:190-208).                *)
(* Writing the upload can fail at open or during the copy.  Line 208       *)
(* reaches the pool through the attribute app.loop, which this module      *)
(* never sets: the lookup or the submission can raise, and then nothing    *)
(* is handed to the pool and the handler's own except and finally run.     *)
(***************************************************************************)

ProcessRequest ==
    /\ Len(jobs) < MaxJobs
    /\ \E filename \in Filenames, format \in Formats :
        IF ~model_available(demucs_model)
        THEN \* line 193
             /\ jobs' = Append(jobs,
                    [NewJob(None, filename, format) EXCEPT
                        !.pc = "done", !.status = 503,
                        !.detail = "Service unavailable: Demucs model failed to load at startup."])
             /\ UNCHANGED <<files, dirs, submitted>>
        ELSE LET video_id == uuid4(Drawn + 1)
                 ds       == makedirs(<<"separated_output">>, makedirs(<<"temp">>, dirs))
                 path     == video_path(video_id, filename)
                 job      == NewJob(video_id, filename, format)
                 saved    == WriteFile(path, "upload", files, ds)
             IN  /\ dirs' = ds
                 /\ \/ \* lines 203-204: open raises, nothing was created
                        /\ jobs' = Append(jobs, [job EXCEPT !.pc = "done", !.status = 500,
                                        !.detail = "Could not save uploaded file"])
                        /\ UNCHANGED <<files, submitted>>
                    \/ \* lines 203-204: the copy stops part-way
                        /\ CanOpenForWrite(path, ds)
                        /\ jobs' = Append(jobs, [job EXCEPT !.pc = "done", !.status = 500,
                                        !.detail = "Could not save uploaded file"])
                        /\ files' = WriteFile(path, "partial upload", files, ds)
                        /\ UNCHANGED submitted
                    \/ \* line 208 raises before anything is submitted:
                       \* lines 213-221
                        /\ CanOpenForWrite(path, ds)
                        /\ \E rm1 \in RemoveOutcomes, rm2 \in RemoveOutcomes :
                            files' = cleanup(video_id, filename, saved, ds, rm1, rm2)
                        /\ jobs' = Append(jobs,
                                reply([job EXCEPT !.exc = "Exception", !.steps = {"save"}]))
                        /\ UNCHANGED submitted
                    \/ \* line 208 hands the call to the pool and awaits it
                        /\ CanOpenForWrite(path, ds)
                        /\ jobs' = Append(jobs, [job EXCEPT !.pc = "extract",
                                                            !.steps = {"save"}])
                        /\ files' = saved
                        /\ submitted' = submitted + 1
    /\ UNCHANGED <<authVars, raceVars, demucs_model, dl>>

(***************************************************************************)
(* /process: process_video_sync on a worker thread (main.py:135-188).      *)
(***************************************************************************)
Holds(path, content) ==
    /\ isfile(path, files, dirs)
    /\ files[Resolve(path, dirs)] = content

Raise(i, exc) == jobs' = [jobs EXCEPT ![i].pc = "finish", ![i].exc = exc]

Succeed(i, step, pc) ==
    jobs' = [jobs EXCEPT ![i].pc = pc, ![i].steps = @ \cup {step}]

\* lines 140-150: the model test, then ffmpeg from video_path to
\* temp_audio_path.  ffmpeg decodes only an intact upload; given one path as
\* input and output it either refuses or writes over its input.
Extract(i) ==
    /\ jobs[i].pc = "extract"
    /\ \E outcome \in {"ok", "error", "error_partial"} :
        LET job == jobs[i]
            out == temp_audio_path(job.video_id)
        IN  IF demucs_model = None
            THEN Raise(i, "Exception") /\ UNCHANGED files
            ELSE IF outcome = "ok" /\ Holds(video_path(job.video_id, job.filename), "upload")
            THEN /\ Succeed(i, "extract", "separate")
                 /\ files' = WriteFile(out, "audio", files, dirs)
            ELSE IF outcome = "error_partial"
            THEN /\ Raise(i, "CalledProcessError")
                 /\ files' = WriteFile(out, "partial audio", files, dirs)
            ELSE Raise(i, "CalledProcessError") /\ UNCHANGED files
    /\ UNCHANGED <<authVars, raceVars, demucs_model, dirs, submitted, dl>>

\* lines 152-169: load the extracted audio, apply the model, write the stems
Separate(i) ==
    /\ jobs[i].pc = "separate"
    /\ \E outcome \in {"ok", "load_error", "write_error"} :
        LET job == jobs[i]
            ds  == makedirs(output_dir(job.video_id), dirs)
        IN  IF outcome = "load_error" \/ ~Holds(temp_audio_path(job.video_id), "audio")
            THEN Raise(i, "Exception") /\ UNCHANGED <<files, dirs>>
            ELSE IF outcome = "write_error"
            THEN /\ Raise(i, "Exception")
                 /\ dirs' = ds
                 /\ files' = WriteFile(stem_path(job.video_id, "vocals", ".wav"),
                                       "stem", files, ds)
            ELSE /\ Succeed(i, "separate", "mux")
                 /\ dirs' = ds
                 /\ files' = WriteFile(stem_path(job.video_id, "music", ".wav"), "stem",
                                WriteFile(stem_path(job.video_id, "vocals", ".wav"),
                                          "stem", files, ds), ds)
    /\ UNCHANGED <<authVars, raceVars, demucs_model, submitted, dl>>

\* lines 171-188: for "mp4" each stem is muxed with the video stream of
\* video_path, which only an intact upload has
Mux(i) ==
    /\ jobs[i].pc = "mux"
    /\ \E outcome \in {"ok", "error", "error_second"} :
        LET job == jobs[i]
        IN  IF job.format # "mp4"
            THEN /\ jobs' = [jobs EXCEPT ![i].pc = "finish",
                                ![i].steps = @ \cup {"mux"},
                                ![i].result = result(job.video_id, job.format)]
                 /\ UNCHANGED files
            ELSE IF outcome = "error"
                    \/ ~Holds(video_path(job.video_id, job.filename), "upload")
            THEN Raise(i, "CalledProcessError") /\ UNCHANGED files
            ELSE IF outcome = "error_second"
            THEN /\ Raise(i, "CalledProcessError")
                 /\ files' = WriteFile(stem_path(job.video_id, "vocals", ".mp4"),
                                       "video", files, dirs)
            ELSE /\ jobs' = [jobs EXCEPT ![i].pc = "finish",
                                ![i].steps = @ \cup {"mux"},
                                ![i].result = result(job.video_id, job.format)]
                 /\ files' = WriteFile(stem_path(job.video_id, "music", ".mp4"), "video",
                                WriteFile(stem_path(job.video_id, "vocals", ".mp4"),
                                          "video", files, dirs), dirs)
    /\ UNCHANGED <<authVars, raceVars, demucs_model, dirs, submitted, dl>>

\* main.py:208-221: the handler resumes with what the worker returned or
\* raised, runs the finally block and answers
Finish(i) ==
    /\ jobs[i].pc = "finish"
    /\ \E rm1 \in RemoveOutcomes, rm2 \in RemoveOutcomes :
        /\ jobs' = [jobs EXCEPT ![i] = reply(jobs[i])]
        /\ files' = cleanup(jobs[i].video_id, jobs[i].filename, files, dirs, rm1, rm2)
    /\ UNCHANGED <<authVars, raceVars, demucs_model, dirs, submitted, dl>>

(***************************************************************************)
(* /download (main.py:223-231).                                            *)
(***************************************************************************)
OutputPrefix == <<"separated_output", "/">>

\* query values a client can send
DownloadArgs ==
    UNION { { stem_path(uuid4(n), "vocals", ".wav"),
              <<"separated_output", "/", "..", "/">> \o video_path(uuid4(n), <<"a", ".mp4">>),
              <<"separated_output", "/", "..", "/">> \o temp_audio_path(uuid4(n)),
              video_path(uuid4(n), <<"a", ".mp4">>) } : n \in 1..MaxJobs }

\* the status and the file served; served is the normalised path of the file
\* whose bytes go out, or ENOENT when none does
download(file, fs, ds) ==
    IF ~startswith(file, OutputPrefix)
    THEN [file |-> file, status |-> 404, detail |-> "Invalid file path", served |-> ENOENT]
    ELSE IF ~isfile(file, fs, ds)
    THEN [file |-> file, status |-> 404, detail |-> "File not found", served |-> ENOENT]
    ELSE [file |-> file, status |-> 200, detail |-> "OK", served |-> Resolve(file, ds)]

Download ==
    /\ \E file \in DownloadArgs : dl' = download(file, files, dirs)
    /\ UNCHANGED <<authVars, raceVars, demucs_model, jobs, files, dirs, submitted>>

NoDownload == [file |-> <<>>, status |-> 0, detail |-> None, served |-> ENOENT]

JobNext ==
    \/ ProcessRequest
    \/ \E i \in 1..Len(jobs) : Extract(i)
    \/ \E i \in 1..Len(jobs) : Separate(i)
    \/ \E i \in 1..Len(jobs) : Mux(i)
    \/ \E i \in 1..Len(jobs) : Finish(i)
    \/ Download

(***************************************************************************)
(* Specifications.  Init is the process right after start-up: an empty     *)
(* store, an empty working directory, and the model loaded or not          *)
(* (main.py:69-76).                                                        *)
(***************************************************************************)
Init ==
    /\ users = EmptyDict
    /\ last = NoResponse
    /\ rthreads = [t \in Threads |-> IdleThread]
    /\ demucs_model \in {"htdemucs", None}
    /\ jobs = <<>>
    /\ files = EmptyDict
    /\ dirs = {}
    /\ submitted = 0
    /\ dl = NoDownload

\* the account store, one request at a time
Spec == Init /\ [][AuthNext]_vars

\* /register requests racing on the store
RaceSpec == Init /\ [][RaceNext]_vars

\* /process jobs and /download requests
JobSpec == Init /\ [][JobNext]_vars

(***************************************************************************)
(* Properties of the account store (Spec).                                 *)
(***************************************************************************)
HasLocalPassword(u, password) ==
    /\ u \in DOMAIN users
    /\ "password_hash" \in DOMAIN users[u]
    /\ users[u].password_hash = hash_password(password)

\* C2: login answers "Login successful" exactly when the account exists and
\* its stored hash equals the hash of the supplied password, and answers 401
\* "Invalid credentials" in every other case, an account created through
\* google-login included.
C2_LoginOutcome ==
    last.op = "login" =>
        IF HasLocalPassword(last.req.username, last.req.password)
        THEN last.status = 200 /\ last.detail = "Login successful"
        ELSE last.status = 401 /\ last.detail = "Invalid credentials"

\* C5: a google-login whose token the remote check reports as an error is
\* answered 401, not the 500 of other failures, and leaves the store as it
\* was.
C5_InvalidTokenUnauthorized ==
    [][ (last'.op = "google-login" /\ "error" \in DOMAIN last'.req)
            => (last'.status = 401 /\ users' = users) ]_vars

\* C7: a register request for a username already in the store, whoever
\* created the account, fails with "Username already exists" and leaves
\* the store, and so the existing account, unchanged.
C7_DuplicateRegisterRejected ==
    [][ (last'.op = "register" /\ last'.req.username \in DOMAIN users)
            => /\ last'.status = 400
               /\ last'.detail = "Username already exists"
               /\ users' = users ]_vars

\* a duplicate register was refused for an account that google-login made
C7_Witness ==
    /\ last.op = "register"
    /\ last.status = 400
    /\ "google_id" \in DOMAIN users[last.req.username]

\* C9: a successful google-login for external identifier sub names an
\* account that is an external-identity account with google_id = sub.
C9_GoogleLoginOwnsAccount ==
    (last.op = "google-login" /\ last.status = 200) =>
        /\ last.username \in DOMAIN users
        /\ "google_id" \in DOMAIN users[last.username]
        /\ users[last.username].google_id = last.req.sub

(***************************************************************************)
(* Properties of racing registrations (RaceSpec).                          *)
(***************************************************************************)
Winners(u) ==
    {t \in Threads : /\ rthreads[t].pc = "done"
                     /\ rthreads[t].status = 200
                     /\ rthreads[t].req.username = u}

\* C8: of the concurrent register requests for one unregistered username at
\* most one answers "Registration successful", and the stored account holds
\* that request's email and password hash.
C8_AtMostOneWinner ==
    \A u \in Usernames :
        /\ Cardinality(Winners(u)) <= 1
        /\ \A t \in Winners(u) :
            /\ users[u].email = rthreads[t].req.email
            /\ users[u].password_hash = hash_password(rthreads[t].req.password)

(***************************************************************************)
(* Properties of /process and /download (JobSpec).                         *)
(***************************************************************************)
Returned(i) == jobs[i].pc = "done"

\* C1: once a /process request that was given a job id has returned, with
\* success or with an error of any step, neither its uploaded-video file
\* nor its extracted-audio file exists.
C1_TempFilesGone ==
    \A i \in 1..Len(jobs) :
        (Returned(i) /\ jobs[i].video_id # None) =>
            /\ ~isfile(video_path(jobs[i].video_id, jobs[i].filename), files, dirs)
            /\ ~isfile(temp_audio_path(jobs[i].video_id), files, dirs)

\* C3: every file /download serves lies inside separated_output, whatever
\* the path argument and whatever jobs are in progress.
C3_DownloadConfined ==
    dl.status = 200 => startswith(dl.served, OutputPrefix)

AllSteps == {"save", "extract", "separate", "mux"}

LocatorPrefix(video_id) == <<"/download?file=">> \o output_dir(video_id) \o <<"/">>

C6_DegradedRejectsEarly ==
    demucs_model = None =>
        /\ \A i \in 1..Len(jobs) :
            /\ Returned(i)
            /\ jobs[i].status = 503
            /\ jobs[i].video_id = None
        /\ Drawn = 0
        /\ files = EmptyDict
        /\ dirs = {}
        /\ submitted = 0

\* the degraded process refused a /process request and then answered a
\* /download request
C6_Witness ==
    /\ demucs_model = None
    /\ Len(jobs) >= 1
    /\ jobs[1].status = 503
    /\ dl.status = 404

\* C10: for every job and every uploaded filename the uploaded-video path
\* and the extracted-audio path are distinct, so extraction never writes
\* over the upload.
C10_DistinctTempPaths ==
    \A i \in 1..Len(jobs) :
        jobs[i].video_id # None =>
            /\ video_path(jobs[i].video_id, jobs[i].filename)
                    # temp_audio_path(jobs[i].video_id)
            /\ ~Holds(video_path(jobs[i].video_id, jobs[i].filename), "audio")

====
